---- MODULE Spec2Model ----
(***************************************************************************)
(* A model of the two pass SIC assembler (class Assembler, assembler.h)    *)
(* together with the helpers it calls (class Util, class DynamicArray).    *)
(*                                                                         *)
(* A C++ string is a TLA+ string; a character is a string of length one.   *)
(* The C++ index i (from 0) is the TLA+ index i+1.                         *)
(***************************************************************************)
EXTENDS Integers, Sequences, FiniteSets, TLC

(***************************************************************************)
(* Bounds of the model.                                                    *)
(***************************************************************************)
\* the number of intermediate blocks pass1 writes before the source ends
MaxLines == 4

\* the number of load and execute commands entered at the prompt
MaxCommands == 4

(***************************************************************************)
(* Characters.                                                             *)
(***************************************************************************)
Ch(s, i) == SubSeq(s, i, i)

UpperLetters == "ABCDEFGHIJKLMNOPQRSTUVWXYZ"
LowerLetters == "abcdefghijklmnopqrstuvwxyz"
DigitChars == "0123456789"
HexLower == "0123456789abcdef"

\* a source byte with the high bit set (0xC3, the lead byte of many two-byte
\* UTF-8 sequences).  It is written "^" here: every predicate of the program
\* answers for "^" what it answers for the byte 0xC3 (no letter, no digit, no
\* delimiter), and CharToInt gives it the byte's value.
HighByte == "^"

CharSet(s) == {Ch(s, i) : i \in 1..Len(s)}
UpperSet == CharSet(UpperLetters)
LowerSet == CharSet(LowerLetters)
DigitSet == CharSet(DigitChars)

IndexIn(c, s) == CHOOSE i \in 1..Len(s) : Ch(s, i) = c

\* the 7-bit characters from ' ' (32) to '/' (47), in code order
Punctuation == " !\"#$%&'()*+,-./"

\* the value of the byte as an unsigned char
ByteValue(c) ==
    IF c = HighByte THEN 195
    ELSE IF c = "\f" THEN 12
    ELSE IF c = "\t" THEN 9
    ELSE IF c \in DigitSet THEN 47 + IndexIn(c, DigitChars)
    ELSE IF c \in UpperSet THEN 64 + IndexIn(c, UpperLetters)
    ELSE IF c \in LowerSet THEN 96 + IndexIn(c, LowerLetters)
    ELSE 31 + IndexIn(c, Punctuation)

\* (int)c for a plain char: negative for a byte above 127 when plain char is
\* signed (x86), the byte's value when it is unsigned (ARM)
CharToInt(c, isSigned) ==
    IF isSigned /\ ByteValue(c) > 127 THEN ByteValue(c) - 256 ELSE ByteValue(c)

(***************************************************************************)
(* class Util                                                              *)
(***************************************************************************)
findChar(src, c) == \E i \in 1..Len(src) : Ch(src, i) = c

isLowerCase(c) == c \in LowerSet

isUpperCase(c) == c \in UpperSet

isDigit(c) == c \in DigitSet

isAlpha(c) == isLowerCase(c) \/ isUpperCase(c)

isAlphaNumeric(c) == isAlpha(c) \/ isDigit(c)

\* c - 32 for a lower case letter
UpperChar(c) == IF isLowerCase(c) THEN Ch(UpperLetters, IndexIn(c, LowerLetters)) ELSE c

\* the loop over the characters, as a recursion that halves the string
RECURSIVE toUpperCase(_)
toUpperCase(src) ==
    IF Len(src) = 0 THEN ""
    ELSE IF Len(src) = 1 THEN UpperChar(src)
    ELSE LET half == Len(src) \div 2 IN
         toUpperCase(SubSeq(src, 1, half)) \o toUpperCase(SubSeq(src, half + 1, Len(src)))

isHexDigit(c) ==
    LET u == UpperChar(c) IN isDigit(u) \/ u \in {"A", "B", "C", "D", "E", "F"}

hasHexFormat(hex) ==
    \A i \in 1..Len(hex) :
        LET c == Ch(hex, i) IN
        /\ isAlphaNumeric(c)
        /\ ~(isAlpha(c) /\ c \notin {"A", "B", "C", "D", "E", "F"})

RECURSIVE Pow(_, _)
Pow(b, e) == IF e = 0 THEN 1 ELSE b * Pow(b, e - 1)

\* the value of a digit character: c - '0', or c - 'A' + 10 for a letter
DigitValue(c) == IF isDigit(c) THEN IndexIn(c, DigitChars) - 1 ELSE 9 + IndexIn(c, UpperLetters)

\* stringToInt's return value: the string is not empty and every character is a
\* digit of the base
stringToIntOk(src, base) ==
    /\ Len(src) > 0
    /\ \A i \in 1..Len(src) :
          LET c == UpperChar(Ch(src, i)) IN
          /\ isAlphaNumeric(c)
          /\ (base <= 10 => isDigit(c))
          /\ (base = 16 => isHexDigit(c))

RECURSIVE stringToIntSum(_, _, _)
stringToIntSum(src, base, i) ==
    IF i > Len(src) THEN 0
    ELSE DigitValue(UpperChar(Ch(src, i))) * Pow(base, Len(src) - i)
         + stringToIntSum(src, base, i + 1)

\* what stringToInt stores in dst when it returns true.  The strings of this
\* model stay below 2^31, where sum and (int)pow(..) do not overflow.
stringToIntValue(src, base) == stringToIntSum(src, base, 1)

\* parseLine pushes the token it has built at index i when line[i] is no
\* delimiter and line[i+1] is one or i is the last index (line[i+1] is then the
\* terminating '\0', no delimiter): these are the ends of the tokens
TokenEnds(line, delims) ==
    {i \in 1..Len(line) :
        /\ ~findChar(delims, Ch(line, i))
        /\ (i = Len(line) \/ findChar(delims, Ch(line, i + 1)))}

\* the token that ends at index end: the characters since the last delimiter
TokenEndingAt(line, delims, end) ==
    LET start == CHOOSE j \in 1..end :
                    /\ \A k \in j..end : ~findChar(delims, Ch(line, k))
                    /\ (j = 1 \/ findChar(delims, Ch(line, j - 1)))
    IN  SubSeq(line, start, end)

\* the tokens parseLine pushes to dst, in the order of the line
parseLine(line, delims) ==
    LET ends == TokenEnds(line, delims)
        nth(n) == CHOOSE e \in ends : Cardinality({x \in ends : x < e}) = n - 1
    IN  [n \in 1..Cardinality(ends) |-> TokenEndingAt(line, delims, nth(n))]

(***************************************************************************)
(* class DynamicArray<string>: the container is a sequence of capacity     *)
(* slots, of which the first numberOfElements are the elements.  A line of *)
(* this model has fewer than minCapacity tokens, so no resize happens.     *)
(***************************************************************************)
minCapacity == 16

\* the array parseLine leaves: the tokens, then default-constructed strings
NewArray(tokens) ==
    [numberOfElements |-> Len(tokens),
     container |-> [i \in 1..minCapacity |-> IF i <= Len(tokens) THEN tokens[i] ELSE ""]]

pad(arr, entry) ==
    [arr EXCEPT !.container =
        [i \in 1..minCapacity |->
            IF i > arr.numberOfElements /\ i <= minCapacity - 1 THEN entry
            ELSE arr.container[i]]]

forceSize(arr, size) ==
    IF size < minCapacity THEN [arr EXCEPT !.numberOfElements = size] ELSE arr

push_front(arr, entry) ==
    [numberOfElements |-> arr.numberOfElements + 1,
     container |-> [i \in 1..minCapacity |->
                      IF i = 1 THEN entry
                      ELSE IF i <= arr.numberOfElements + 1 THEN arr.container[i - 1]
                      ELSE arr.container[i]]]

at(arr, index) == arr.container[index + 1]

(***************************************************************************)
(* class Assembler: tables and constants                                   *)
(***************************************************************************)
MSIZE == 32768
maxProgramSizeBytes == MSIZE
errorCodeSize == 4
addressPadding == 4
objectCodePadding == 8
basicPadding == 6
sizePadding == 2
machineCodePadding == 60
opcodePadding == 2

opcodeTable ==
    [m \in {"ADD", "AND", "COMP", "DIV", "J", "JEQ", "JGT", "JLT", "JSUB", "LDA",
            "LDCH", "LDL", "LDX", "MUL", "OR", "RD", "RSUB", "STA", "STCH", "STL",
            "STX", "SUB", "TD", "TIX", "WD"} |->
       CASE m = "ADD" -> 24 [] m = "AND" -> 88 [] m = "COMP" -> 40 [] m = "DIV" -> 36
         [] m = "J" -> 60 [] m = "JEQ" -> 48 [] m = "JGT" -> 52 [] m = "JLT" -> 56
         [] m = "JSUB" -> 72 [] m = "LDA" -> 0 [] m = "LDCH" -> 80 [] m = "LDL" -> 8
         [] m = "LDX" -> 4 [] m = "MUL" -> 32 [] m = "OR" -> 68 [] m = "RD" -> 216
         [] m = "RSUB" -> 76 [] m = "STA" -> 12 [] m = "STCH" -> 84 [] m = "STL" -> 20
         [] m = "STX" -> 16 [] m = "SUB" -> 28 [] m = "TD" -> 224 [] m = "TIX" -> 44
         [] m = "WD" -> 220]

\* the delimiters of a source line: tab and space
delims == "\t "

(***************************************************************************)
(* Formatted output                                                        *)
(***************************************************************************)
RECURSIVE Fill(_, _)
Fill(c, n) == IF n <= 0 THEN "" ELSE c \o Fill(c, n - 1)

\* operator<< under std::right and std::setw(w), std::setfill(c)
SetwRight(s, w, c) == Fill(c, w - Len(s)) \o s

\* operator<< under std::left and std::setw(w), std::setfill(c)
SetwLeft(s, w, c) == s \o Fill(c, w - Len(s))

RECURSIVE HexDigits(_)
HexDigits(n) ==
    IF n < 16 THEN Ch(HexLower, n + 1)
    ELSE HexDigits(n \div 16) \o Ch(HexLower, (n % 16) + 1)

\* every hex digit d of the text replaced by the digit 15 - d
RECURSIVE HexComplement(_)
HexComplement(digits) ==
    IF Len(digits) = 0 THEN ""
    ELSE Ch(HexLower, 17 - IndexIn(Ch(digits, 1), HexLower))
         \o HexComplement(SubSeq(digits, 2, Len(digits)))

\* an int written under std::hex: a negative value is written as the unsigned
\* value of its 32 bits, 2^32 + n, which is the complement of -n - 1
Hex(n) ==
    IF n < 0 THEN HexComplement(SetwRight(HexDigits(-n - 1), 8, "0")) ELSE HexDigits(n)

RECURSIVE DecDigits(_)
DecDigits(n) ==
    IF n < 10 THEN Ch(DigitChars, n + 1)
    ELSE DecDigits(n \div 10) \o Ch(DigitChars, (n % 10) + 1)

\* an int written under std::dec
Dec(n) == IF n < 0 THEN "-" \o DecDigits(-n) ELSE DecDigits(n)

(***************************************************************************)
(* class Assembler: the private helpers.  A helper that appends to the     *)
(* member string errors is two operators: its return value, and the text   *)
(* it appends.                                                             *)
(***************************************************************************)
\* getColumns: the line in upper case (srcLine is changed in place) and its
\* label, opcode and operand columns.  The line is not empty.
\* getColumns without the empty label of a line that begins with a delimiter
getColumns_NoEmptyLabel(srcLine) ==
    LET upper == toUpperCase(srcLine)
        parsedLine == forceSize(pad(NewArray(parseLine(upper, delims)), ""), 4)
    IN  [srcLine |-> upper,
         label |-> at(parsedLine, 0),
         opcode |-> at(parsedLine, 1),
         operand |-> at(parsedLine, 2)]

getColumns(srcLine) ==
    LET upper == toUpperCase(srcLine)
        parsedLine == forceSize(pad(NewArray(parseLine(upper, delims)), ""), 4)
        columns == IF findChar(delims, Ch(upper, 1)) THEN push_front(parsedLine, "")
                   ELSE parsedLine
    IN  [srcLine |-> upper,
         label |-> at(columns, 0),
         opcode |-> at(columns, 1),
         operand |-> at(columns, 2)]

\* the error code isValidSymbol appends for a string that is not empty
isValidSymbolErrors(src) ==
    IF Len(src) > 6 THEN "0010"
    ELSE IF ~isAlpha(Ch(src, 1)) THEN "0011"
    ELSE IF \E i \in 2..Len(src) : ~isAlphaNumeric(Ch(src, i)) THEN "0012"
    ELSE ""

isValidSymbol(src) == isValidSymbolErrors(src) = ""

\* src.at(0) throws std::out_of_range for the empty string
isValidSymbolThrows(src) == Len(src) = 0

isHexSymbol(symbol) ==
    Len(symbol) > 0 /\ isDigit(Ch(symbol, 1)) /\ hasHexFormat(symbol)

\* isValidOperand: is the operand ",X" indexed (at least 3 characters)
OperandHasIndexSuffix(src) ==
    Len(src) >= 3 /\ Ch(src, Len(src)) = "X" /\ Ch(src, Len(src) - 1) = ","

isValidOperandErrors(src) ==
    IF Len(src) = 0 THEN ""
    ELSE IF Ch(src, 1) = "0" /\ ~isHexSymbol(src) THEN ""
    ELSE IF OperandHasIndexSuffix(src)
         THEN IF \E i \in 1..(Len(src) - 2) : ~isAlphaNumeric(Ch(src, i)) THEN "0013" ELSE ""
    ELSE IF \E i \in 1..Len(src) : ~isAlphaNumeric(Ch(src, i)) THEN "0013"
    ELSE ""

isValidOperand(src) ==
    /\ Len(src) > 0
    /\ ~(Ch(src, 1) = "0" /\ ~isHexSymbol(src))
    /\ isValidOperandErrors(src) = ""

\* getConstantLength, for the BYTE directive: the length, or -1, and the error
\* code appended
getConstantLength(operand) ==
    LET operlen == Len(operand)
        c == Ch(operand, 1)
        stringLimit == 30
        hexLimit == 32
    IN  IF operlen < 4 THEN [length |-> -1, errors |-> ""]
        ELSE IF c # "C" /\ c # "X" THEN [length |-> -1, errors |-> "0009"]
        ELSE IF Ch(operand, 2) # "'" \/ Ch(operand, operlen) # "'"
             THEN [length |-> -1, errors |-> "0005"]
        ELSE IF c = "C"
             THEN IF operlen - 3 > stringLimit THEN [length |-> -1, errors |-> "0007"]
                  ELSE [length |-> operlen - 3, errors |-> ""]
        ELSE IF \E i \in 3..(operlen - 1) : ~isHexDigit(Ch(operand, i))
             THEN [length |-> -1, errors |-> ""]
        ELSE IF operlen - 3 > hexLimit THEN [length |-> -1, errors |-> "0008"]
        ELSE IF (operlen - 3) % 2 = 1 THEN [length |-> -1, errors |-> "0006"]
        ELSE [length |-> (operlen - 3) \div 2, errors |-> ""]

\* address |= 1 << 15
setMSB(address) == IF (address \div 32768) % 2 = 1 THEN address ELSE address + 32768

\* the operand is not empty where createObjectCode calls this
isIndexedOperand(operand) ==
    LET end == Len(operand) - 1 IN
    end >= 2 /\ Ch(operand, end + 1) = "X" /\ Ch(operand, end) = ","

\* the characters before the first comma
getOperandFromIndexed(source) ==
    LET commas == {i \in 1..Len(source) : Ch(source, i) = ","} IN
    IF commas = {} THEN source
    ELSE SubSeq(source, 1, (CHOOSE i \in commas : \A j \in commas : i <= j) - 1)

getByteOperand(operand) ==
    IF Len(operand) > 3 THEN SubSeq(operand, 3, Len(operand) - 1) ELSE ""

\* byteDataStream << std::hex << (int)c for every character of a C'..' string
RECURSIVE ByteStringHex(_, _)
ByteStringHex(operandValue, isSigned) ==
    IF Len(operandValue) = 0 THEN ""
    ELSE IF Len(operandValue) = 1 THEN Hex(CharToInt(operandValue, isSigned))
    ELSE LET half == Len(operandValue) \div 2 IN
         ByteStringHex(SubSeq(operandValue, 1, half), isSigned)
         \o ByteStringHex(SubSeq(operandValue, half + 1, Len(operandValue)), isSigned)

\* the address part of an instruction's object code
AddressField(address) == SetwRight(Hex(address), addressPadding, "0")

\* createObjectCode(opcode, operand) against the symbol table symtab; opcode
\* and operand are columns of an intermediate block
createObjectCode(opcode, operandIn, symtab, isSigned) ==
    LET isIndexed == isIndexedOperand(operandIn)
        operand == IF isIndexed THEN getOperandFromIndexed(operandIn) ELSE operandIn
    IN  IF opcode = "RESB" \/ opcode = "RESW" THEN ""
        ELSE IF opcode = "BYTE"
             THEN LET type == Ch(operand, 1)
                      operandValue == getByteOperand(operand)
                  IN  IF type = "C" THEN ByteStringHex(operandValue, isSigned)
                      ELSE IF type = "X" THEN operandValue
                      ELSE ""
        ELSE IF opcode = "WORD"
             THEN SetwRight(Hex(stringToIntValue(operand, 10)), basicPadding, "0")
        ELSE IF isHexSymbol(operand)
             THEN SetwRight(opcode, opcodePadding, "0")
                  \o AddressField(stringToIntValue(operand, 16))
        ELSE IF operand \in DOMAIN symtab
             THEN SetwRight(opcode, opcodePadding, "0")
                  \o AddressField(IF isIndexed THEN setMSB(symtab[operand])
                                  ELSE symtab[operand])
        ELSE IF stringToIntOk(opcode, 16)
                /\ stringToIntValue(opcode, 16) = opcodeTable["RSUB"]
             THEN SetwLeft(opcode, basicPadding, "0")
        ELSE ""

(***************************************************************************)
(* The state: the members of Assembler, the locals of pass1 and pass2 that *)
(* live across loop iterations, and the three files.                       *)
(***************************************************************************)
VARIABLES
    pc,                      \* "pass1", "between" (pass1 returned), "pass2",
                             \* "done" (pass2 returned), "aborted" (uncaught exception)
    plainCharSigned,         \* is plain char a signed type in this build
    locctr, startingAddress, programLength, anyErrors, errors, symbolTable,
    startFound,              \* pass1's local
    intermediate,            \* intermediate.txt: a sequence of 5-line blocks
    intermediateHex,         \* the intermediate stream writes integers in base 16
    incrementSum,            \* history: the sum of the increments added to locctr
    nextBlock,               \* pass2: the number of the next block to read
    startSet, endFound, makeNewTextRec, machineCodeStreamBuffer,  \* pass2's locals
    objectCode,              \* pass2's local of the block processed last
    listingfile,             \* listing.txt: rows and notices
    objectfile,              \* object.txt: what was written to it, in order
    objectExists,            \* object.txt is in the directory
    shell,                   \* the interpreter: "prompt", or "terminated" by an
                             \* uncaught exception
    s_firstAddress,          \* the global of load and exec
    loadedBytes,             \* the bytes load has put into the SIC memory
    commands,                \* history: the load and execute commands entered
    sicRuns                  \* history: the calls of SICRun

pass1Vars == <<locctr, startingAddress, programLength, errors, symbolTable,
               startFound, intermediate, intermediateHex, incrementSum>>
pass2Vars == <<nextBlock, startSet, endFound, makeNewTextRec, machineCodeStreamBuffer,
               objectCode, listingfile, objectfile, objectExists>>
loaderVars == <<shell, s_firstAddress, loadedBytes, commands, sicRuns>>
vars == <<pc, plainCharSigned, anyErrors, pass1Vars, pass2Vars, loaderVars>>

\* values an int that was never assigned may hold
UninitialisedInts == {-1, 32769}

EmptyTable == [l \in {} |-> 0]

Init ==
    /\ pc = "pass1"
    /\ plainCharSigned \in BOOLEAN
    /\ locctr \in UninitialisedInts
    /\ startingAddress = 0
    /\ programLength = 0
    /\ anyErrors = FALSE
    /\ errors = ""
    /\ symbolTable = EmptyTable
    /\ startFound = FALSE
    /\ intermediate = <<>>
    /\ intermediateHex = FALSE
    /\ incrementSum = 0
    /\ nextBlock = 1
    /\ startSet = FALSE
    /\ endFound = FALSE
    /\ makeNewTextRec = FALSE
    /\ machineCodeStreamBuffer = ""
    /\ objectCode = ""
    /\ listingfile = <<>>
    /\ objectfile = <<>>
    /\ objectExists = FALSE
    /\ shell = "prompt"
    /\ s_firstAddress = ""
    /\ loadedBytes = EmptyTable
    /\ commands = <<>>
    /\ sicRuns = <<>>

(***************************************************************************)
(* pass1                                                                   *)
(***************************************************************************)
\* the error codes reportErrors reads from an error list: one every
\* errorCodeSize characters
ErrorCodes(errorList) ==
    {SubSeq(errorList, errorCodeSize * i + 1, errorCodeSize * (i + 1)) :
        i \in 0..(Len(errorList) \div errorCodeSize - 1)}

Block(sourceLine, opcode, address, operand, errorList) ==
    [sourceLine |-> sourceLine, opcode |-> opcode, address |-> address,
     operand |-> operand, errorList |-> errorList]

\* the loop skips the line: it is empty, a comment, or has no column
SkipsLine(srcLine) ==
    IF Len(srcLine) = 0 THEN TRUE
    ELSE IF Ch(srcLine, 1) = "." THEN TRUE
    ELSE LET col == getColumns(srcLine) IN
         Len(col.label) + Len(col.opcode) + Len(col.operand) = 0

\* the source could not be opened: pass1 returns at once
Pass1OpenFails ==
    /\ pc = "pass1"
    /\ intermediate = <<>> /\ ~startFound /\ errors = ""
    /\ pc' = "between"
    /\ UNCHANGED <<loaderVars, plainCharSigned, anyErrors, pass1Vars, pass2Vars>>

\* getline fails: the end of the source
Pass1EndOfFile ==
    /\ pc = "pass1"
    /\ pc' = "between"
    /\ UNCHANGED <<loaderVars, plainCharSigned, anyErrors, pass1Vars, pass2Vars>>

Pass1Skip(srcLine) ==
    /\ pc = "pass1"
    /\ SkipsLine(srcLine)
    /\ errors' = ""
    /\ UNCHANGED <<loaderVars, pc, plainCharSigned, anyErrors, locctr, startingAddress,
                   programLength, symbolTable, startFound, intermediate,
                   intermediateHex, incrementSum, pass2Vars>>

\* the errors of a START line
StartErrors(label, operand, found) ==
    (IF found THEN "0015" ELSE "")
    \o (IF Len(label) > 0 /\ ~isValidSymbol(label)
        THEN isValidSymbolErrors(label) \o "0004" ELSE "")
    \o (IF Len(operand) = 0 \/ ~stringToIntOk(operand, 16) THEN "0001" ELSE "")

\* StartAddress with the operand read in base 10
StartAddress_Base10(operand) ==
    IF Len(operand) = 0 \/ ~stringToIntOk(operand, 10) THEN 0
    ELSE stringToIntValue(operand, 10)

\* the value a START line gives locctr and startingAddress
StartAddress(operand) ==
    IF Len(operand) = 0 \/ ~stringToIntOk(operand, 16) THEN 0
    ELSE stringToIntValue(operand, 16)

Pass1Start(srcLine) ==
    /\ pc = "pass1"
    /\ Len(intermediate) < MaxLines
    /\ ~SkipsLine(srcLine)
    /\ LET col == getColumns(srcLine) IN
       /\ col.opcode = "START"
       /\ anyErrors' = (anyErrors \/ startFound)
       /\ startFound' = TRUE
       /\ errors' = StartErrors(col.label, col.operand, startFound)
       /\ locctr' = StartAddress(col.operand)
       /\ startingAddress' = StartAddress(col.operand)
       /\ intermediateHex' = TRUE
       /\ intermediate' = Append(intermediate,
              Block(col.srcLine, col.opcode, Hex(locctr'), col.operand, errors'))
    /\ UNCHANGED <<loaderVars, pc, plainCharSigned, programLength, symbolTable, incrementSum,
                   pass2Vars>>

\* locctr and startingAddress after "else if(!startFound)"
ImplicitStart(value, found) == IF found THEN value ELSE 0

\* the errors of the operand check that precedes the END and instruction branches
OperandErrors(opcode, operand) ==
    IF opcode \notin {"BYTE", "WORD", "RESW", "RESB"} /\ ~isValidOperand(operand)
    THEN isValidOperandErrors(operand) \o "0001" ELSE ""

\* the errors the END branch adds
EndErrors(operand) ==
    IF ~isValidSymbol(operand)
    THEN isValidSymbolErrors(operand) \o (IF ~isHexSymbol(operand) THEN "0017" ELSE "")
    ELSE ""

Pass1End(srcLine) ==
    /\ pc = "pass1"
    /\ Len(intermediate) < MaxLines
    /\ ~SkipsLine(srcLine)
    /\ LET col == getColumns(srcLine) IN
       /\ col.opcode = "END"
       /\ ~isValidSymbolThrows(col.operand)
       /\ startFound' = TRUE
       /\ locctr' = ImplicitStart(locctr, startFound)
       /\ startingAddress' = ImplicitStart(startingAddress, startFound)
       /\ errors' = OperandErrors(col.opcode, col.operand) \o EndErrors(col.operand)
       /\ intermediateHex' = TRUE
       /\ intermediate' = Append(intermediate,
              Block(col.srcLine, col.opcode, Hex(locctr'), col.operand, errors'))
       /\ programLength' = locctr' - startingAddress'
    /\ pc' = "between"
    /\ UNCHANGED <<loaderVars, plainCharSigned, anyErrors, symbolTable, incrementSum, pass2Vars>>

\* END without an operand: isValidSymbol("") throws std::out_of_range, which
\* nothing catches.  The block's first four lines are in the file; nothing reads
\* them.
Pass1EndThrows(srcLine) ==
    /\ pc = "pass1"
    /\ Len(intermediate) < MaxLines
    /\ ~SkipsLine(srcLine)
    /\ LET col == getColumns(srcLine) IN
       /\ col.opcode = "END"
       /\ isValidSymbolThrows(col.operand)
       /\ startFound' = TRUE
       /\ locctr' = ImplicitStart(locctr, startFound)
       /\ startingAddress' = ImplicitStart(startingAddress, startFound)
       /\ errors' = OperandErrors(col.opcode, col.operand)
       /\ intermediateHex' = TRUE
    /\ pc' = "aborted"
    /\ UNCHANGED <<loaderVars, plainCharSigned, anyErrors, programLength, symbolTable,
                   intermediate, incrementSum, pass2Vars>>

\* the errors of the label of an instruction or directive line
LabelErrors(label, symtab) ==
    IF Len(label) = 0 THEN ""
    ELSE IF label \in DOMAIN symtab THEN "0002"
    ELSE IF ~isValidSymbol(label) THEN isValidSymbolErrors(label) \o "0004"
    ELSE ""

\* symbolTable.insert(make_pair(label, address))
SymbolInsert(symtab, label, address) ==
    [l \in DOMAIN symtab \cup {label} |-> IF l \in DOMAIN symtab THEN symtab[l] ELSE address]

\* LabelInsert without the search for the label, storing with operator[]
LabelInsert_Overwrites(symtab, label, address) ==
    IF Len(label) = 0 THEN symtab
    ELSE [l \in DOMAIN symtab \cup {label} |-> IF l = label THEN address ELSE symtab[l]]

\* the symbol table after the label of an instruction or directive line
LabelInsert(symtab, label, address) ==
    IF Len(label) = 0 \/ label \in DOMAIN symtab THEN symtab
    ELSE SymbolInsert(symtab, label, address)

\* the errors of the opcode and of a directive's operand
OpcodeErrors(opcode, operand) ==
    IF opcode = "WORD" \/ opcode = "RESW" \/ opcode = "RESB"
    THEN IF ~stringToIntOk(operand, 10) THEN "0001" ELSE ""
    ELSE IF opcode = "BYTE"
    THEN IF getConstantLength(operand).length = -1
         THEN getConstantLength(operand).errors \o "0001" ELSE ""
    ELSE IF opcode \in DOMAIN opcodeTable THEN ""
    ELSE "0003"

\* the increment for the location counter
Increment(opcode, operand) ==
    IF opcode = "WORD" THEN 3
    ELSE IF opcode = "RESW"
    THEN IF stringToIntOk(operand, 10) THEN 3 * stringToIntValue(operand, 10) ELSE 0
    ELSE IF opcode = "RESB"
    THEN IF stringToIntOk(operand, 10) THEN stringToIntValue(operand, 10) ELSE 0
    ELSE IF opcode = "BYTE"
    THEN IF getConstantLength(operand).length # -1 THEN getConstantLength(operand).length
         ELSE 0
    ELSE IF opcode \in DOMAIN opcodeTable THEN 3
    ELSE 0

\* a line that is neither START nor END
Pass1Instruction(srcLine) ==
    /\ pc = "pass1"
    /\ Len(intermediate) < MaxLines
    /\ ~SkipsLine(srcLine)
    /\ LET col == getColumns(srcLine)
           opFound == col.opcode \notin {"WORD", "RESW", "RESB", "BYTE"}
                      /\ col.opcode \in DOMAIN opcodeTable
           address == ImplicitStart(locctr, startFound)
       IN
       /\ col.opcode # "START" /\ col.opcode # "END"
       /\ startFound' = TRUE
       /\ startingAddress' = ImplicitStart(startingAddress, startFound)
       /\ errors' = OperandErrors(col.opcode, col.operand)
                    \o LabelErrors(col.label, symbolTable)
                    \o OpcodeErrors(col.opcode, col.operand)
       /\ symbolTable' = LabelInsert(symbolTable, col.label, address)
       /\ intermediateHex' = (intermediateHex \/ opFound)
       /\ intermediate' = Append(intermediate,
              Block(col.srcLine,
                    IF opFound THEN Hex(opcodeTable[col.opcode]) ELSE col.opcode,
                    IF intermediateHex' THEN Hex(address) ELSE Dec(address),
                    col.operand, errors'))
       /\ locctr' = address + Increment(col.opcode, col.operand)
       /\ incrementSum' = incrementSum + Increment(col.opcode, col.operand)
    /\ UNCHANGED <<loaderVars, pc, plainCharSigned, anyErrors, programLength, pass2Vars>>

(***************************************************************************)
(* pass2: the record writers                                               *)
(***************************************************************************)
\* what one call wrote to object.txt: text is what precedes the machine code,
\* data the machine code (of finishTextRecord only)
Written(kind, text, data) == [kind |-> kind, text |-> text, data |-> data]

\* an int written under std::uppercase and std::hex
HexUpper(n) == toUpperCase(Hex(n))

createHeaderRecord(progName, address, progLen) ==
    Written("H",
            "H" \o SetwLeft(progName, basicPadding, " ")
                \o SetwRight(toUpperCase(address), basicPadding, "0")
                \o SetwRight(HexUpper(progLen), basicPadding, "0"),
            "")

createEndRecord(address) ==
    Written("E", "E" \o SetwRight(HexUpper(address), basicPadding, "0"), "")

startTextRecord(address) ==
    Written("T", "T" \o SetwRight(toUpperCase(address), basicPadding, "0"), "")

finishTextRecord(machineBufferSize, buffer) ==
    Written("F", SetwRight(HexUpper(machineBufferSize \div 2), sizePadding, "0"),
            toUpperCase(buffer))

\* a row of the listing: the columns writeToListingFile writes, before padding
ListingRow(address, code, sourceLine, errorList) ==
    [kind |-> "row", address |-> toUpperCase(address), objectCode |-> toUpperCase(code),
     sourceLine |-> sourceLine, errorList |-> errorList]

\* the text of a row's address and object code columns
ListingColumns(row) ==
    SetwRight(row.address, addressPadding, IF row.address = "" THEN " " ELSE "0")
    \o " " \o SetwRight(row.objectCode, objectCodePadding, " ") \o " "

\* the program name: the source line up to its first space
ProgramName(sourceLine) ==
    LET spaces == {i \in 1..Len(sourceLine) : Ch(sourceLine, i) = " "} IN
    IF spaces = {} THEN sourceLine
    ELSE SubSeq(sourceLine, 1, (CHOOSE i \in spaces : \A j \in spaces : i <= j) - 1)

(***************************************************************************)
(* pass2                                                                   *)
(***************************************************************************)
\* pass2 opens intermediate.txt, listing.txt and object.txt
Pass2Open ==
    /\ pc = "between"
    /\ pc' = "pass2"
    /\ objectExists' = TRUE
    /\ UNCHANGED <<loaderVars, plainCharSigned, anyErrors, pass1Vars, nextBlock, startSet, endFound,
                   makeNewTextRec, machineCodeStreamBuffer, objectCode, listingfile,
                   objectfile>>

\* LineObjectCode without the test of the error list
LineObjectCode_IgnoresErrors(block, symtab, isSigned) ==
    createObjectCode(block.opcode, block.operand, symtab, isSigned)

\* the object code of a block that is neither START nor END
LineObjectCode(block, symtab, isSigned) ==
    IF block.errorList = "" THEN createObjectCode(block.opcode, block.operand, symtab, isSigned)
    ELSE "------"

\* the text record in progress must be written out before this object code
MustFlush(code, totalMachineCodeChars) ==
    code = "" \/ totalMachineCodeChars > machineCodePadding

\* NextBuffer with the object code lost when the record is written out
NextBuffer_DropsOnFlush(buffer, code, flushes) ==
    IF flushes THEN "" ELSE buffer \o code

\* machineCodeStreamBuffer after a block: reset if the record was written out,
\* then the object code appended
NextBuffer(buffer, code, flushes) ==
    (IF flushes THEN "" ELSE buffer) \o code

\* OpensAfterReserve without the text record opened after a reserve directive
OpensAfterReserve_Never(code, makeNew) == FALSE

\* a text record is opened for this object code: the first after a reserve
\* directive made pass2 write out the record in progress
OpensAfterReserve(code, makeNew) == code # "" /\ makeNew

\* the header pass2 writes when the first block is not a START
DefaultHeader(address) ==
    <<createHeaderRecord("NONAME", "00000", programLength), startTextRecord(address)>>

\* StartHeader without the test of startSet
StartHeader_Always(isSet, block, progLen) ==
    <<createHeaderRecord(ProgramName(block.sourceLine), block.address, progLen),
      startTextRecord(block.address)>>

\* the records a START block writes: the header and the first text record,
\* unless a header was written before
StartHeader(isSet, block, progLen) ==
    IF isSet THEN <<>>
    ELSE <<createHeaderRecord(ProgramName(block.sourceLine), block.address, progLen),
           startTextRecord(block.address)>>

\* a START block
Pass2Start ==
    /\ pc = "pass2" /\ ~endFound /\ nextBlock <= Len(intermediate)
    /\ LET block == intermediate[nextBlock] IN
       /\ block.opcode = "START"
       /\ anyErrors' = (anyErrors \/ block.errorList # "")
       /\ listingfile' = Append(listingfile,
              ListingRow(block.address, "", block.sourceLine, block.errorList))
       /\ objectfile' = objectfile \o StartHeader(startSet, block, programLength)
       /\ startSet' = TRUE
       /\ objectCode' = ""
    /\ nextBlock' = nextBlock + 1
    /\ UNCHANGED <<loaderVars, pc, plainCharSigned, pass1Vars, endFound, makeNewTextRec,
                   machineCodeStreamBuffer, objectExists>>

\* an END block
Pass2End ==
    /\ pc = "pass2" /\ ~endFound /\ nextBlock <= Len(intermediate)
    /\ LET block == intermediate[nextBlock]
           machineBufferSize == Len(machineCodeStreamBuffer)
       IN
       /\ block.opcode = "END"
       /\ anyErrors' = (anyErrors \/ block.errorList # "")
       /\ startSet' = TRUE
       /\ listingfile' = Append(listingfile,
              ListingRow("", "", block.sourceLine, block.errorList))
       /\ objectfile' = objectfile
              \o (IF startSet THEN <<>> ELSE DefaultHeader(block.address))
              \o (IF machineBufferSize # 0
                  THEN <<finishTextRecord(machineBufferSize, machineCodeStreamBuffer)>>
                  ELSE <<>>)
              \o <<createEndRecord(startingAddress)>>
       /\ endFound' = TRUE
       /\ objectCode' = ""
    /\ nextBlock' = nextBlock + 1
    /\ UNCHANGED <<loaderVars, pc, plainCharSigned, pass1Vars, makeNewTextRec,
                   machineCodeStreamBuffer, objectExists>>

\* a block that is neither START nor END
Pass2Line ==
    /\ pc = "pass2" /\ ~endFound /\ nextBlock <= Len(intermediate)
    /\ LET block == intermediate[nextBlock]
           machineBufferSize == Len(machineCodeStreamBuffer)
           code == LineObjectCode(block, symbolTable, plainCharSigned)
           totalMachineCodeChars == Len(code) + machineBufferSize
           opensAfterReserve == OpensAfterReserve(code, makeNewTextRec)
           flushes == MustFlush(code, totalMachineCodeChars) /\ machineBufferSize # 0
       IN
       /\ block.opcode # "START" /\ block.opcode # "END"
       /\ anyErrors' = (anyErrors \/ block.errorList # "")
       /\ startSet' = TRUE
       /\ objectCode' = code
       /\ listingfile' = Append(listingfile,
              ListingRow(block.address, code, block.sourceLine, block.errorList))
       /\ objectfile' = objectfile
              \o (IF startSet THEN <<>> ELSE DefaultHeader(block.address))
              \o (IF opensAfterReserve THEN <<startTextRecord(block.address)>> ELSE <<>>)
              \o (IF flushes
                  THEN <<finishTextRecord(machineBufferSize, machineCodeStreamBuffer)>>
                       \o (IF code # "" THEN <<startTextRecord(block.address)>> ELSE <<>>)
                  ELSE <<>>)
       /\ makeNewTextRec' = IF flushes /\ code = "" THEN TRUE
                            ELSE IF opensAfterReserve THEN FALSE
                            ELSE makeNewTextRec
       /\ machineCodeStreamBuffer' = NextBuffer(machineCodeStreamBuffer, code, flushes)
    /\ nextBlock' = nextBlock + 1
    /\ UNCHANGED <<loaderVars, pc, plainCharSigned, pass1Vars, endFound, objectExists>>

\* RemoveObjectFile without the remove
RemoveObjectFile_Never(exists, anyErr) == exists

\* remove("object.txt") if there are any errors
RemoveObjectFile(exists, anyErr) == IF anyErr THEN FALSE ELSE exists

\* after the loop: the size check, the missing END check, the clean up
Pass2Finish ==
    /\ pc = "pass2"
    /\ endFound \/ nextBlock > Len(intermediate)
    /\ anyErrors' = (anyErrors \/ locctr > maxProgramSizeBytes \/ ~endFound)
    /\ listingfile' = listingfile
           \o (IF locctr > maxProgramSizeBytes
               THEN <<[kind |-> "fatal", lastAddress |-> locctr]>> ELSE <<>>)
           \o (IF ~endFound THEN <<[kind |-> "missingEnd"]>> ELSE <<>>)
    /\ objectExists' = RemoveObjectFile(objectExists, anyErrors')
    /\ pc' = "done"
    /\ UNCHANGED <<loaderVars, plainCharSigned, pass1Vars, nextBlock, startSet, endFound,
                   makeNewTextRec, machineCodeStreamBuffer, objectCode, objectfile>>

(***************************************************************************)
(* The commands load and execute of the interpreter                        *)
(***************************************************************************)
\* the files load is given: whether the file can be opened, and its lines.
\* object.txt, prog.txt, noend.txt and odd.txt are object files the assembler
\* writes; noend.txt is the one of a source of a START line and an END line,
\* whose E record is on the line of the text record
ObjectFiles ==
    [name \in {"object.txt", "prog.txt", "noend.txt", "odd.txt", "blank.txt", "missing.txt"} |->
        IF name = "object.txt"
        THEN [opens |-> TRUE,
              lines |-> <<"HCOPY  001000000003", "T00100003000005", "E001000">>]
        ELSE IF name = "prog.txt"
        THEN [opens |-> TRUE,
              lines |-> <<"HPROG  002000000003", "T00200003000100", "E002000">>]
        ELSE IF name = "noend.txt"
        THEN [opens |-> TRUE, lines |-> <<"HNONAME000000000000", "T000000E000000">>]
        ELSE IF name = "odd.txt"
        THEN [opens |-> TRUE,
              lines |-> <<"HNONAME000000000003", "T000000031000000", "E000000">>]
        ELSE IF name = "blank.txt"
        THEN [opens |-> TRUE, lines |-> <<"HCOPY  001000000003", "", "E001000">>]
        ELSE [opens |-> FALSE, lines |-> <<>>]]

\* std::string::substr(pos, n): throws std::out_of_range if pos > size
substrThrows(s, pos) == pos > Len(s)

substr(s, pos, n) ==
    SubSeq(s, pos + 1, IF pos + n < Len(s) THEN pos + n ELSE Len(s))

\* the int stringToInt leaves in dst: the value, or what dst held before
stringToIntInto(src, previous, base) ==
    IF stringToIntOk(src, base) THEN stringToIntValue(src, base) ELSE previous

\* PutMem(a, &b, 0): the byte b is put at address a
PutMem(bytes, a, b) ==
    [x \in DOMAIN bytes \cup {a} |-> IF x = a THEN b ELSE bytes[x]]

\* the for loop of load over the data of a text record, from index i; the
\* character after the last one is the terminator, which is no hex digit
RECURSIVE LoadBytes(_, _, _, _, _)
LoadBytes(bytes, s_byteData, i, i_address, i_byte) ==
    IF i >= Len(s_byteData) THEN bytes
    ELSE LET s_byte == substr(s_byteData, i, 2)
             byte == IF Len(s_byte) = 2 THEN stringToIntInto(s_byte, i_byte, 16)
                     ELSE i_byte
         IN  LoadBytes(PutMem(bytes, i_address, byte % 256), s_byteData, i + 2,
                       i_address + 1, byte)

\* the while loop of load from line k of the file: the bytes put, the start
\* address, and whether at(0) or substr(9) threw
RECURSIVE LoadRecords(_, _, _, _)
LoadRecords(lines, k, bytes, first) ==
    IF k > Len(lines) THEN [bytes |-> bytes, firstAddress |-> first, threw |-> FALSE]
    ELSE LET s_textRecord == lines[k] IN
         IF Len(s_textRecord) = 0
         THEN [bytes |-> bytes, firstAddress |-> first, threw |-> TRUE]
         ELSE IF Ch(s_textRecord, 1) = "E"
         THEN [bytes |-> bytes, firstAddress |-> substr(s_textRecord, 1, 6),
               threw |-> FALSE]
         ELSE IF substrThrows(s_textRecord, 9)
         THEN [bytes |-> bytes, firstAddress |-> first, threw |-> TRUE]
         ELSE LoadRecords(lines, k + 1,
                          LoadBytes(bytes, substr(s_textRecord, 9, Len(s_textRecord)), 0,
                                    stringToIntInto(substr(s_textRecord, 1, 6), 0, 16), 0),
                          first)

\* ResetAddress with the start address of the load before kept
ResetAddress_Keeps(previous) == previous

\* load starts with s_firstAddress = ""
ResetAddress(previous) == ""

\* what load does with a file: the header line is skipped
LoadFile(file, bytes, first) ==
    IF file.opens THEN LoadRecords(file.lines, 2, bytes, ResetAddress(first))
    ELSE [bytes |-> bytes, firstAddress |-> ResetAddress(first), threw |-> FALSE]

\* the command load [file], when it returns to the prompt
Load(name) ==
    /\ shell = "prompt" /\ Len(commands) < MaxCommands
    /\ LET loaded == LoadFile(ObjectFiles[name], loadedBytes, s_firstAddress) IN
       /\ ~loaded.threw
       /\ loadedBytes' = loaded.bytes
       /\ s_firstAddress' = loaded.firstAddress
    /\ commands' = Append(commands, [name |-> "load", file |-> name])
    /\ UNCHANGED <<pc, plainCharSigned, anyErrors, pass1Vars, pass2Vars, shell, sicRuns>>

\* the command load [file], when a record of the file makes at(0) or
\* substr(9) throw std::out_of_range, which nothing catches
LoadThrows(name) ==
    /\ shell = "prompt" /\ Len(commands) < MaxCommands
    /\ LET loaded == LoadFile(ObjectFiles[name], loadedBytes, s_firstAddress) IN
       /\ loaded.threw
       /\ loadedBytes' = loaded.bytes
       /\ s_firstAddress' = loaded.firstAddress
    /\ commands' = Append(commands, [name |-> "load", file |-> name])
    /\ shell' = "terminated"
    /\ UNCHANGED <<pc, plainCharSigned, anyErrors, pass1Vars, pass2Vars, sicRuns>>

\* the command execute: SICRun at the start address, if there is one
Exec ==
    /\ shell = "prompt" /\ Len(commands) < MaxCommands
    /\ commands' = Append(commands, [name |-> "execute", file |-> ""])
    /\ sicRuns' = IF s_firstAddress # ""
                  THEN Append(sicRuns, [command |-> Len(commands) + 1,
                                        address |-> stringToIntInto(s_firstAddress, 0, 16)])
                  ELSE sicRuns
    /\ UNCHANGED <<pc, plainCharSigned, anyErrors, pass1Vars, pass2Vars, shell,
                   s_firstAddress, loadedBytes>>

(***************************************************************************)
(* The specifications.  pass1 reads any line of a set of source lines      *)
(* next, so the sources are all sequences of these lines that write at     *)
(* most MaxLines blocks.                                                   *)
(***************************************************************************)
\* one step of the program over the sources made of the given lines
Step(lines) ==
    \/ Pass1OpenFails
    \/ Pass1EndOfFile
    \/ \E srcLine \in lines : Pass1Skip(srcLine)
    \/ \E srcLine \in lines : Pass1Start(srcLine)
    \/ \E srcLine \in lines : Pass1End(srcLine)
    \/ \E srcLine \in lines : Pass1EndThrows(srcLine)
    \/ \E srcLine \in lines : Pass1Instruction(srcLine)
    \/ Pass2Open
    \/ Pass2Start
    \/ Pass2End
    \/ Pass2Line
    \/ Pass2Finish

\* lines for the symbol table, the location counter and the errors
SourceLines ==
    { "COPY START 1000",
      "A WORD 5",
      " LDA A",
      "1B RESW 1",
      " END A",
      " END",
      ". COMMENT" }

Next == Step(SourceLines)

Spec == Init /\ [][Next]_vars

\* lines for the object code of a line
CodeLines ==
    { "COPY START 1000",
      "A WORD 16777216",
      " LDA A,X",
      " LDA 1000,X",
      " LDA 0FFFFF",
      " END A",
      " END",
      ". COMMENT" }

NextCode == Step(CodeLines)

SpecCode == Init /\ [][NextCode]_vars

\* lines for the text records
TextLines ==
    { "COPY START 1000",
      " RESW 1",
      " LDA 0100",
      " BYTE X'0123456789ABCDEF0123456789ABCDEF'",
      " BYTE C'^^^^^^^^'",
      " END COPY",
      " END",
      ". COMMENT" }

NextText == Step(TextLines)

SpecText == Init /\ [][NextText]_vars

\* lines for the addresses and the size of the program
AddressLines ==
    { "COPY START 8000",
      "A WORD 5",
      " RESB 20",
      " LDA A",
      " END A",
      " END",
      ". COMMENT" }

NextAddress == Step(AddressLines)

SpecAddress == Init /\ [][NextAddress]_vars

\* lines for the operands
OperandLines ==
    { "COPY START 1000",
      " RSUB",
      " LDA 0100,X",
      " LDA A,X",
      " END 1000",
      " END",
      ". COMMENT" }

NextOperand == Step(OperandLines)

SpecOperand == Init /\ [][NextOperand]_vars

\* lines for the BYTE constants
ByteLines ==
    { "COPY START 1000",
      " BYTE X'0G'",
      " BYTE C''",
      " BYTE X'123'",
      " BYTE C'AB'",
      " END COPY",
      " END",
      ". COMMENT" }

NextByte == Step(ByteLines)

SpecByte == Init /\ [][NextByte]_vars

\* lines for the columns: runs of spaces and tabs, tokens after the operand,
\* no operand, a single token, delimiters at the end of the line
ColumnLines ==
    { "COPY START 1000",
      "A\tRSUB  ",
      "\t LDA  A  EXTRA TOKENS",
      "B",
      " END  A",
      " END",
      ". COMMENT" }

NextColumns == Step(ColumnLines)

SpecColumns == Init /\ [][NextColumns]_vars

\* the commands load and execute, in any order, over the files
NextLoad ==
    \/ \E name \in DOMAIN ObjectFiles : Load(name)
    \/ \E name \in DOMAIN ObjectFiles : LoadThrows(name)
    \/ Exec

SpecLoad == Init /\ [][NextLoad]_vars

\* lines for the text records around reserve directives
ReserveLines ==
    { "COPY START 1000",
      " RESW 1",
      " LDA 0100",
      " END COPY",
      " END",
      ". COMMENT" }

NextReserve == Step(ReserveLines)

SpecReserve == Init /\ [][NextReserve]_vars

(***************************************************************************)
(* What the files show                                                     *)
(***************************************************************************)
\* the last block pass1 wrote to intermediate.txt
LastBlock == intermediate[Len(intermediate)]

\* the columns of the source line of a block or of a listing row
ColumnsOf(entry) == getColumns(entry.sourceLine)

\* the machine-code sections of the text records in object.txt, in order
TextRecordData == SelectSeq(objectfile, LAMBDA w : w.kind = "F")

\* the rows of listing.txt of lines that are neither START nor END
CodeRows ==
    SelectSeq(listingfile,
              LAMBDA row : IF row.kind = "row"
                           THEN ColumnsOf(row).opcode \notin {"START", "END"}
                           ELSE FALSE)

\* the rows of error-free lines whose mnemonic is in the opcode table
InstructionRows ==
    SelectSeq(CodeRows,
              LAMBDA row : row.errorList = "" /\ ColumnsOf(row).opcode \in DOMAIN opcodeTable)

\* the strings of a sequence, concatenated in order
RECURSIVE Concat(_)
Concat(strings) ==
    IF strings = <<>> THEN "" ELSE Head(strings) \o Concat(Tail(strings))

\* bit 15 of the address field, the last four hex digits of an object code
AddressBit15(code) ==
    Ch(code, Len(code) - 3) \in {"8", "9", "A", "B", "C", "D", "E", "F"}

\* the operand field ends in ",X"
EndsInCommaX(operand) ==
    Len(operand) >= 2 /\ SubSeq(operand, Len(operand) - 1, Len(operand)) = ",X"

(***************************************************************************)
(* The properties                                                          *)
(***************************************************************************)
\* C1: after pass1 followed by pass2, object.txt does not exist if anyErrors
\* is true at the end of pass2, and exists if anyErrors is false.
C1_ObjectFileIffNoErrors ==
    pc = "done" => (objectExists <=> ~anyErrors)

\* pass2 has written records to object.txt and removed the file
C1_Witness ==
    pc = "done" /\ anyErrors /\ ~objectExists /\ Len(objectfile) > 0

C3_LocctrNeverDecreases ==
    [][(pc = "pass1" /\ startFound) => locctr' >= locctr]_vars

\* C4: for a source that reaches an END line, programLength set at END is the
\* sum of the LOCCTR increments of the lines before END (a START line adds 0).
C4_ProgramLengthIsIncrementSum ==
    (pc \in {"between", "pass2", "done"} /\ Len(intermediate) > 0)
    => (LastBlock.opcode = "END" => programLength = incrementSum)

\* C5: at every point of pass1 and pass2 every key of the symbol table is a
\* valid symbol: 1 to 6 characters, the first alphabetic, the others
\* alphanumeric.
C5_SymbolTableKeysValid ==
    \A l \in DOMAIN symbolTable : Len(l) > 0 /\ isValidSymbol(l)

\* C6: every text record pass2 writes has a machine-code section of at most 60
\* hex characters, and the accumulation buffer holds at most 60 characters
\* after a line.
C6_TextRecordAtMost60 ==
    /\ \A i \in 1..Len(TextRecordData) :
          Len(TextRecordData[i].data) <= machineCodePadding
    /\ Len(machineCodeStreamBuffer) <= machineCodePadding

\* C7: every text record pass2 writes has a machine-code section with an even
\* number of hex digits.
C7_TextRecordEvenDigits ==
    \A i \in 1..Len(TextRecordData) : Len(TextRecordData[i].data) % 2 = 0

\* C8: for every line whose mnemonic is in the opcode table and whose error
\* list is empty, the object code of pass2 is exactly 6 hex characters.
C8_InstructionCodeSixDigits ==
    \A i \in 1..Len(InstructionRows) :
        Len(InstructionRows[i].objectCode) = opcodePadding + addressPadding

\* C9: for every error-free instruction line that has an object code, bit 15 of
\* the address field of the object code is set exactly if the operand field
\* ends in ",X".
C9_IndexBitIffCommaX ==
    \A i \in 1..Len(InstructionRows) :
        LET row == InstructionRows[i] IN
        Len(row.objectCode) >= addressPadding
        => (AddressBit15(row.objectCode) <=> EndsInCommaX(ColumnsOf(row).operand))

\* C10: for a source that ends with END, the data sections of the text records
\* of the object file, concatenated in order, are the non-empty object codes of
\* the lines before END, concatenated in source order (both in upper case).
C10_TextDataIsObjectCodes ==
    (pc = "done" /\ endFound)
    => Concat([i \in 1..Len(TextRecordData) |-> TextRecordData[i].data])
       = Concat([i \in 1..Len(CodeRows) |-> toUpperCase(CodeRows[i].objectCode)])

\* the object codes went to two text records or more, one of them written out
\* because the next object code did not fit, and a reserve directive gave no
\* object code
C10_Witness ==
    /\ pc = "done" /\ endFound
    /\ Len(TextRecordData) >= 2
    /\ \E i \in 1..Len(CodeRows) : CodeRows[i].objectCode = ""
    /\ \E i \in 1..Len(CodeRows) : Len(CodeRows[i].objectCode) > machineCodePadding \div 2

\* the START blocks of intermediate.txt
StartBlocks == SelectSeq(intermediate, LAMBDA b : b.opcode = "START")

\* the E records of object.txt
EndRecords == SelectSeq(objectfile, LAMBDA w : w.kind = "E")

\* the operand of the source's START line read in base 16, 0 without START
DeclaredStart ==
    IF StartBlocks = <<>> THEN 0 ELSE stringToIntValue(StartBlocks[1].operand, 16)

\* C11: for a source with no errors, the address in the E record is the START
\* operand read in base 16, or 0 if the source has no START line.
C11_EndRecordIsStartOperand ==
    (pc = "done" /\ ~anyErrors)
    => /\ Len(EndRecords) = 1
       /\ EndRecords[1].text = "E" \o SetwRight(HexUpper(DeclaredStart), basicPadding, "0")

\* an error-free source with a START line whose operand is not 0
C11_Witness ==
    /\ pc = "done" /\ ~anyErrors /\ objectExists
    /\ StartBlocks # <<>>
    /\ DeclaredStart > 0
    /\ Len(EndRecords) = 1

\* the listing has the notice of the fatal size error
FatalSizeReported ==
    \E i \in 1..Len(listingfile) : listingfile[i].kind = "fatal"

\* C12: programLength is LOCCTR at END minus the starting address, and pass2
\* reports the fatal size error, and sets anyErrors, exactly when that program
\* length is greater than 32768 bytes, whatever the START address.
C12_FatalIffProgramLengthOverMSIZE ==
    (pc = "done" /\ endFound)
    => /\ programLength = locctr - startingAddress
       /\ FatalSizeReported <=> programLength > MSIZE
       /\ FatalSizeReported => anyErrors

\* C13: for every intermediate block other than START and END whose error list
\* is not empty, the listing row of the line is written with the object code
\* "------" (createObjectCode is not called) and with the errors of the block.
C13_ErrorLineGetsDashes ==
    \A i \in 1..Len(listingfile) :
        listingfile[i].kind = "row"
        => LET block == intermediate[i]
               row == listingfile[i]
           IN  /\ row.sourceLine = block.sourceLine
               /\ row.errorList = block.errorList
               /\ (block.opcode \notin {"START", "END"} /\ block.errorList # "")
                  => row.objectCode = "------"

\* pass2 has listed a line with a duplicate label, for which createObjectCode
\* would give another object code than "------"
C13_Witness ==
    /\ pc = "done"
    /\ \E i \in 1..Len(intermediate) :
          /\ intermediate[i].opcode = "WORD"
          /\ "0002" \in ErrorCodes(intermediate[i].errorList)
          /\ listingfile[i].objectCode = "------"
          /\ createObjectCode(intermediate[i].opcode, intermediate[i].operand,
                              symbolTable, plainCharSigned) = "000005"

\* C14: no source line, an END line without operand included, makes pass1
\* raise an exception or abort: pass1 records the errors of the line and
\* continues or halts normally.
C14_Pass1NeverAborts ==
    pc # "aborted"

\* C15: when pass2 reads LOCCTR, pass1 has initialised it: to the START
\* operand, or to 0 when START is absent, also for a source with only comment
\* or blank lines and for one that could not be opened.
C15_LocctrInitialisedForPass2 ==
    (pc = "pass2" /\ ~startFound) => locctr = 0

\* the operand createObjectCode looks up: without the ",X" of an indexed operand
LookedUpOperand(operand) ==
    IF isIndexedOperand(operand) THEN getOperandFromIndexed(operand) ELSE operand

\* C16: for an error-free line that is not RESB, RESW, BYTE or WORD, whose
\* operand is neither a hex literal nor a symbol of the symbol table and whose
\* opcode is not RSUB's, the object code of pass2 is "------".
C16_UnresolvedOperandGetsDashes ==
    \A i \in 1..Len(InstructionRows) :
        LET row == InstructionRows[i]
            operand == LookedUpOperand(ColumnsOf(row).operand)
        IN  (/\ ~isHexSymbol(operand)
             /\ operand \notin DOMAIN symbolTable
             /\ ColumnsOf(row).opcode # "RSUB")
            => row.objectCode = "------"

\* C17: in every block pass1 writes to intermediate.txt the third line is the
\* LOCCTR of the line in hexadecimal, also in a source without START whose
\* first lines are directives.
C17_BlockAddressIsHexLocctr ==
    [][Len(intermediate') > Len(intermediate)
       => intermediate'[Len(intermediate')].address
          = Hex(IF intermediate'[Len(intermediate')].opcode = "START"
                THEN locctr' ELSE ImplicitStart(locctr, startFound))
    ]_vars

\* the END blocks of intermediate.txt
EndBlocks == SelectSeq(intermediate, LAMBDA b : b.opcode = "END")

\* a hex address: digit-initial, all characters 0-9A-F
IsHexAddress(operand) ==
    /\ Len(operand) > 0
    /\ Ch(operand, 1) \in DigitSet
    /\ \A i \in 1..Len(operand) : Ch(operand, i) \in DigitSet \cup {"A", "B", "C", "D", "E", "F"}

\* C18: an END line whose operand is a valid symbol or a hex address gets an
\* empty error list in pass1; error codes are recorded only when the operand
\* is neither.
C18_EndOperandAccepted ==
    \A i \in 1..Len(EndBlocks) :
        (isValidSymbol(EndBlocks[i].operand) \/ IsHexAddress(EndBlocks[i].operand))
        => EndBlocks[i].errorList = ""

\* C19: an RSUB line with no operand is assembled without error, and its
\* object code is RSUB's opcode 4C as 6 hex digits padded with 0.
C19_RsubWithoutOperand ==
    \A i \in 1..Len(CodeRows) :
        (ColumnsOf(CodeRows[i]).opcode = "RSUB" /\ ColumnsOf(CodeRows[i]).operand = "")
        => CodeRows[i].errorList = "" /\ CodeRows[i].objectCode = "4C0000"

\* the operand without an optional trailing ",X"
WithoutCommaX(operand) ==
    IF EndsInCommaX(operand) THEN SubSeq(operand, 1, Len(operand) - 2) ELSE operand

\* the operands the operand check is to accept: not empty and, without an
\* optional trailing ",X", a hex-form literal (starts with 0, all characters
\* 0-9A-F) or an alphanumeric symbol
AcceptedOperandForm(operand) ==
    LET base == WithoutCommaX(operand) IN
    /\ Len(base) > 0
    /\ \/ Ch(base, 1) = "0" /\ hasHexFormat(base)
       \/ Ch(base, 1) # "0" /\ \A i \in 1..Len(base) : isAlphaNumeric(Ch(base, i))

\* C20: isValidOperand accepts exactly the operands of the accepted form, a
\* hex literal with ",X" included: a line that passes through the operand
\* check gets 0001 exactly if its operand is not of that form.
C20_OperandAcceptedIffForm ==
    \A i \in 1..Len(intermediate) :
        LET block == intermediate[i] IN
        block.opcode \notin {"START", "BYTE", "WORD", "RESW", "RESB"}
        => (AcceptedOperandForm(block.operand)
            <=> "0001" \notin ErrorCodes(block.errorList))

\* the rows of error-free WORD lines
WordRows ==
    SelectSeq(CodeRows,
              LAMBDA row : row.errorList = "" /\ ColumnsOf(row).opcode = "WORD")

\* C21: for every WORD line pass1 accepts without error, the object code is
\* exactly 6 hex digits, zero-padded, equal to the decimal value of the
\* operand, and the line advances LOCCTR by 3.
C21_WordCodeSixDigits ==
    \A i \in 1..Len(WordRows) :
        LET col == ColumnsOf(WordRows[i]) IN
        /\ Len(WordRows[i].objectCode) = basicPadding
        /\ stringToIntValue(WordRows[i].objectCode, 16) = stringToIntValue(col.operand, 10)
        /\ Increment(col.opcode, col.operand) = 3

\* the operand of a BYTE line breaks a sizing rule: shorter than 4 characters,
\* specifier not C or X, a quote missing, a C string of more than 30
\* characters, X content of more than 32 digits, of an odd number of digits or
\* with a character that is not a hex digit
ViolatesSizingRule(operand) ==
    \/ Len(operand) < 4
    \/ Ch(operand, 1) \notin {"C", "X"}
    \/ Ch(operand, 2) # "'"
    \/ Ch(operand, Len(operand)) # "'"
    \/ Ch(operand, 1) = "C" /\ Len(operand) - 3 > 30
    \/ Ch(operand, 1) = "X" /\ Len(operand) - 3 > 32
    \/ Ch(operand, 1) = "X" /\ (Len(operand) - 3) % 2 = 1
    \/ Ch(operand, 1) = "X" /\ \E i \in 3..(Len(operand) - 1) : ~isHexDigit(Ch(operand, i))

\* the error codes of the sizing rules of BYTE
SizingCodes == {"0005", "0006", "0007", "0008", "0009"}

\* C22: for every BYTE line whose operand breaks a sizing rule, pass1 records
\* at least one of the codes 0005-0009 on the line and advances LOCCTR by 0,
\* and pass2 lists the line without an object code (the dashes of a line with
\* errors).
C22_SizingViolationGetsCode ==
    \A i \in 1..Len(intermediate) :
        LET block == intermediate[i] IN
        (block.opcode = "BYTE" /\ ViolatesSizingRule(block.operand))
        => /\ ErrorCodes(block.errorList) \cap SizingCodes # {}
           /\ Increment(block.opcode, block.operand) = 0
           /\ (i <= Len(listingfile) /\ listingfile[i].kind = "row")
              => listingfile[i].objectCode = "------"

\* the last record of object.txt is the size and machine code of a text
\* record: the record in progress was written out and no other one is open
NoRecordOpen ==
    Len(objectfile) > 0 /\ objectfile[Len(objectfile)].kind = "F"

\* the records a step of pass2 appends to object.txt
Appended == SubSeq(objectfile', Len(objectfile) + 1, Len(objectfile'))

\* C23: when a RESB/RESW line makes pass2 write out a non-empty text record,
\* it opens no T record; while no record is open, a line without object code
\* (any number of reserve lines) opens none, and the next line with a non-empty
\* object code opens one T record, with the address of that line.
C23_RecordOpenedAtNextCode ==
    [][(pc = "pass2" /\ nextBlock <= Len(intermediate) /\ nextBlock' = nextBlock + 1)
       => LET block == intermediate[nextBlock]
              row == listingfile'[Len(listingfile')]
          IN  /\ (/\ block.opcode \in {"RESB", "RESW"}
                  /\ block.errorList = ""
                  /\ machineCodeStreamBuffer # "")
                 => /\ Appended =
                         <<finishTextRecord(Len(machineCodeStreamBuffer),
                                            machineCodeStreamBuffer)>>
                    /\ NoRecordOpen'
              /\ NoRecordOpen
                 => Appended =
                      IF block.opcode \notin {"START", "END"} /\ row.objectCode # ""
                      THEN <<startTextRecord(block.address)>>
                      ELSE IF block.opcode = "END"
                      THEN <<createEndRecord(startingAddress)>>
                      ELSE <<>>
    ]_vars

\* pass2 wrote out a text record at a reserve line, opened none at the reserve
\* line after it, and opened one with the address of the line that follows
C23_Witness ==
    /\ pc = "pass2" /\ nextBlock = 5
    /\ intermediate[2].opcode = "RESW" /\ intermediate[2].errorList = ""
    /\ intermediate[3].opcode = "RESW" /\ intermediate[3].errorList = ""
    /\ listingfile[4].objectCode # ""
    /\ Len(SelectSeq(objectfile, LAMBDA w : w.kind = "T")) = 2
    /\ Len(objectfile) >= 2
    /\ objectfile[Len(objectfile) - 1].kind = "F"
    /\ objectfile[Len(objectfile)] = startTextRecord(intermediate[4].address)

\* a tab or a space
IsDelimiter(c) == c \in {" ", "\t"}

\* the tokens of a line, from left to right: the maximal runs of characters
\* that are not delimiters
RECURSIVE TokensOf(_)
TokensOf(line) ==
    LET n == Len(line)
        first == IF \E i \in 1..n : ~IsDelimiter(Ch(line, i))
                 THEN CHOOSE i \in 1..n :
                        /\ ~IsDelimiter(Ch(line, i))
                        /\ \A j \in 1..(i - 1) : IsDelimiter(Ch(line, j))
                 ELSE 0
        last == IF first = 0 THEN 0
                ELSE CHOOSE i \in first..n :
                        /\ \A j \in first..i : ~IsDelimiter(Ch(line, j))
                        /\ (i = n \/ IsDelimiter(Ch(line, i + 1)))
    IN  IF first = 0 THEN <<>>
        ELSE <<SubSeq(line, first, last)>> \o TokensOf(SubSeq(line, last + 1, n))

\* the fields of a line: its tokens, after an empty label field if the line
\* begins with a delimiter
FieldsOf(line) ==
    IF IsDelimiter(Ch(line, 1)) THEN <<"">> \o TokensOf(line) ELSE TokensOf(line)

\* field n of a line, empty if the line has fewer fields
Field(line, n) == IF n <= Len(FieldsOf(line)) THEN FieldsOf(line)[n] ELSE ""

\* C24: for every source line pass1 processes, getColumns returns the empty
\* label exactly if the line begins with a tab or a space, and otherwise the
\* first token; the opcode is the next token and the operand the token after
\* it, or empty when absent, whatever the number of tokens and the runs of
\* delimiters.  The block of the line has this operand.
C24_ColumnsAreTokens ==
    \A i \in 1..Len(intermediate) :
        LET line == intermediate[i].sourceLine
            col == getColumns(line)
        IN  /\ col.label = "" <=> IsDelimiter(Ch(line, 1))
            /\ col.label = Field(line, 1)
            /\ col.opcode = Field(line, 2)
            /\ col.operand = Field(line, 3)
            /\ intermediate[i].operand = col.operand

\* pass1 has processed a line that begins with a run of delimiters and has
\* tokens after its operand, and a line of one token
C24_Witness ==
    /\ \E i \in 1..Len(intermediate) :
          /\ Len(TokensOf(intermediate[i].sourceLine)) = 4
          /\ IsDelimiter(Ch(intermediate[i].sourceLine, 1))
          /\ IsDelimiter(Ch(intermediate[i].sourceLine, 2))
          /\ ColumnsOf(intermediate[i]).label = ""
          /\ ColumnsOf(intermediate[i]).opcode = "LDA"
          /\ intermediate[i].operand = "A"
    /\ \E i \in 1..Len(intermediate) :
          /\ Len(TokensOf(intermediate[i].sourceLine)) = 1
          /\ ColumnsOf(intermediate[i]).label = "B"
          /\ ColumnsOf(intermediate[i]).opcode = ""

\* the T records opened in object.txt
OpenedRecords == SelectSeq(objectfile, LAMBDA w : w.kind = "T")

\* C25: the address field of each T record is the pass-1 address of the first
\* line whose object code is stored in the record: when pass2 puts an object
\* code first in the buffer, the T record last opened has the address of that
\* line, also after a RESB/RESW line processed while the buffer was empty.
C25_RecordAddressIsFirstLine ==
    [][(pc = "pass2" /\ nextBlock <= Len(intermediate) /\ nextBlock' = nextBlock + 1)
       => LET block == intermediate[nextBlock] IN
          (/\ block.opcode \notin {"START", "END"}
           /\ objectCode' # ""
           /\ machineCodeStreamBuffer' = objectCode')
          => /\ OpenedRecords' # <<>>
             /\ OpenedRecords'[Len(OpenedRecords')] = startTextRecord(block.address)
    ]_vars

\* C26: every T record pass2 opens is closed with its size and a non-empty
\* machine-code section before the next T record is opened and before the E
\* record is written: what follows a "T" + address in object.txt is never
\* another T record or the E record.
C26_OpenedRecordIsClosed ==
    \A i \in 1..(Len(objectfile) - 1) :
        objectfile[i].kind = "T"
        => objectfile[i + 1].kind = "F" /\ objectfile[i + 1].data # ""

\* the rows of the lines whose mnemonic is in the opcode table
MnemonicRows ==
    SelectSeq(CodeRows, LAMBDA row : ColumnsOf(row).opcode \in DOMAIN opcodeTable)

\* C27: if an instruction line has an operand that is a well-formed symbol
\* defined by no label of the source, anyErrors is true at the end of pass2 and
\* object.txt does not remain.
C27_UndefinedSymbolIsError ==
    (pc = "done" /\ endFound)
    => \A i \in 1..Len(MnemonicRows) :
           LET operand == LookedUpOperand(ColumnsOf(MnemonicRows[i]).operand) IN
           (Len(operand) > 0 /\ isValidSymbol(operand) /\ operand \notin DOMAIN symbolTable)
           => anyErrors /\ ~objectExists

\* the rows of the lines without errors that are neither START nor END
ErrorFreeRows == SelectSeq(CodeRows, LAMBDA row : row.errorList = "")

\* C28: for every line with an empty error list that is not START or END, the
\* number of hex characters of the object code of pass2 is 2 times the LOCCTR
\* increment pass1 applied for the line, except for RESB/RESW, whose object
\* code is empty.
C28_CodeLengthIsTwiceIncrement ==
    \A i \in 1..Len(ErrorFreeRows) :
        LET col == ColumnsOf(ErrorFreeRows[i]) IN
        IF col.opcode \in {"RESB", "RESW"}
        THEN ErrorFreeRows[i].objectCode = ""
        ELSE Len(ErrorFreeRows[i].objectCode) = 2 * Increment(col.opcode, col.operand)

\* the H records of object.txt
HeaderRecords == SelectSeq(objectfile, LAMBDA w : w.kind = "H")

\* C29: pass2 writes at most one H record, before every T record (it is the
\* first record of object.txt), and at most one E record, after which nothing
\* more is written (it is the last record), for a START line that is first,
\* duplicated, misplaced after other lines or absent.
C29_OneHeaderOneEnd ==
    /\ Len(HeaderRecords) <= 1
    /\ Len(EndRecords) <= 1
    /\ \A i \in 1..Len(objectfile) :
          /\ objectfile[i].kind = "H" => i = 1
          /\ objectfile[i].kind = "E" => i = Len(objectfile)
          /\ objectfile[i].kind = "T" => objectfile[1].kind = "H"

\* pass2 has finished a source with two START lines, the first one after
\* another line, and has written one H record, text records and one E record
C29_Witness ==
    /\ pc = "done" /\ endFound
    /\ Len(StartBlocks) = 2
    /\ intermediate[1].opcode # "START"
    /\ Len(HeaderRecords) = 1
    /\ Len(OpenedRecords) >= 1
    /\ Len(EndRecords) = 1

\* the number of the most recent load command before command k, 0 if none
RecentLoad(k) ==
    LET loads == {j \in 1..(k - 1) : commands[j].name = "load"} IN
    IF loads = {} THEN 0 ELSE CHOOSE j \in loads : \A l \in loads : l <= j

\* the E records of a file: the lines after the header that begin with E
EndLines(name) ==
    SelectSeq(Tail(ObjectFiles[name].lines),
              LAMBDA line : Len(line) > 0 /\ Ch(line, 1) = "E")

\* a load of the file opens it and reaches an E record
LoadReachesEnd(name) ==
    /\ ObjectFiles[name].opens
    /\ ObjectFiles[name].lines # <<>>
    /\ EndLines(name) # <<>>

\* the address of the first E record of the file: its six hex digits
EndLineAddress(name) == stringToIntValue(SubSeq(EndLines(name)[1], 2, 7), 16)

\* C30: in any sequence of load and execute commands, execute runs the SIC
\* engine only if the most recent load opened its file and reached an E record,
\* and then at the address of that E record; a load that does not open its
\* file, or whose file has no E record, leaves no start address, so that an
\* execute after it runs nothing.
C30_ExecuteRunsLoadedProgram ==
    /\ \A r \in 1..Len(sicRuns) :
          LET k == sicRuns[r].command
              j == RecentLoad(k)
          IN  /\ commands[k].name = "execute"
              /\ j > 0
              /\ LoadReachesEnd(commands[j].file)
              /\ sicRuns[r].address = EndLineAddress(commands[j].file)
    /\ \A k \in 1..Len(commands) :
          (/\ commands[k].name = "execute"
           /\ RecentLoad(k) > 0
           /\ ~LoadReachesEnd(commands[RecentLoad(k)].file))
          => \A r \in 1..Len(sicRuns) : sicRuns[r].command # k
    /\ (/\ shell = "prompt"
        /\ commands # <<>>
        /\ commands[Len(commands)].name = "load"
        /\ ~LoadReachesEnd(commands[Len(commands)].file))
       => s_firstAddress = ""

\* a load reached the E record of its file and execute ran the engine at its
\* address; then a load did not open its file, and execute ran nothing
C30_Witness ==
    /\ Len(commands) = 4
    /\ commands[1] = [name |-> "load", file |-> "object.txt"]
    /\ commands[2].name = "execute"
    /\ commands[3] = [name |-> "load", file |-> "missing.txt"]
    /\ commands[4].name = "execute"
    /\ sicRuns = <<[command |-> 2, address |-> 4096]>>
    /\ s_firstAddress = ""

====
